---------------------------- MODULE Spec2Model ----------------------------
(***************************************************************************)
(* lazyhelm: the values cache (internal/helm/cache.go), the YAML path      *)
(* resolver and the structural YAML diff (internal/ui, GetYAMLPath and     *)
(* DiffYAML).                                                              *)
(*                                                                         *)
(* Spec      the Cache used by concurrent callers, with sync.RWMutex and   *)
(*           a wall clock.                                                 *)
(* LiveSpec  the same Cache under fairly scheduled callers.                *)
(* DiffSpec  DiffYAML applied to bounded pairs of texts.                   *)
(* WindowSpec DiffYAML applied to a short old and a longer new text.       *)
(* PathSpec  GetYAMLPath applied to bounded line sequences and indices.    *)
(* TotalSpec both functions applied to short inputs, the empty ones and    *)
(*           indices outside the lines among them.                         *)
(* LoadSpec  the loaders of the values (loadValues, loadValuesByVersion,   *)
(*           the diff branch of handleEnter) over the Cache and the helm   *)
(*           client.                                                       *)
(*                                                                         *)
(* Texts and lines are sequences of one-character strings, so that         *)
(* TrimSpace, Index, HasPrefix and Split are computed, not assumed.        *)
(***************************************************************************)
EXTENDS Integers, Sequences, FiniteSets, TLC

VARIABLES
    entries,     \* Cache.entries: map[string]CacheEntry, a function key -> entry
    mu,          \* Cache.mu: the RWMutex, [readers: the callers holding it shared,
                 \*   writer: the caller that holds it exclusively or is the
                 \*   pending writer new readers wait for, or 0]
    now,         \* the wall clock read by time.Now / time.Since, in minutes
    pc,          \* per caller: where it stands inside Get / Set / Clear
    args,        \* per caller: the arguments of the call in progress
    ret,         \* per caller: the value Get is about to return
    lastSet,     \* history: per key, the latest Set made since the latest Clear
    dropped,     \* history: the keys the latest Clear dropped, less those Set since
    oldContent,  \* DiffYAML: first argument
    newContent,  \* DiffYAML: second argument
    diffResult,  \* DiffYAML: the latest returned []DiffLine
    diffPrev,    \* DiffYAML: the result returned by the call before the latest
    diffCalls,   \* DiffYAML: number of calls made on (oldContent, newContent)
    lines,       \* GetYAMLPath: first argument
    lineNum,     \* GetYAMLPath: second argument
    pathResult,  \* GetYAMLPath: the returned path
    pathDone,    \* GetYAMLPath: whether the call has returned
    fetchLog     \* history: the calls of the helm client's GetChartValues /
                 \*   GetChartValuesByVersion made by the loaders, each with its
                 \*   outcome and the clock reading

cacheVars == <<entries, mu, now, pc, args, ret, lastSet, dropped>>
diffVars  == <<oldContent, newContent, diffResult, diffPrev, diffCalls>>
pathVars  == <<lines, lineNum, pathResult, pathDone>>
loadVars  == <<fetchLog>>
vars == <<entries, mu, now, pc, args, ret, lastSet, dropped,
          oldContent, newContent, diffResult, diffPrev, diffCalls,
          lines, lineNum, pathResult, pathDone, fetchLog>>

None == "none"

(***************************************************************************)
(* Cache                                                                   *)
(***************************************************************************)

\* Bounds of the cache model.
NumProcs == 2
MaxTicks == 2

\* NewCache(30 * time.Minute)
TTL == 30

Procs    == 1..NumProcs
\* The (chartName, version) pairs the callers pass: a chart without and with a
\* version, and a chart whose name holds an '@'.
Pairs    == { <<"a", "">>, <<"a", "1">>, <<"a@1", "">> }
Values   == {"t1", "t2"}
\* The clock moves in steps of one TTL: ages 0, TTL (the boundary) and 2*TTL occur.
ClockStep == TTL
MaxClock  == MaxTicks * ClockStep

\* A plausible slip: the '@' left out of the format string.
buildKeyNoSeparator(chartName, version) ==
    IF version = "" THEN chartName ELSE chartName \o version

\* Cache.buildKey
buildKey(chartName, version) ==
    IF version = "" THEN chartName ELSE chartName \o "@" \o version

\* time.Since(t)
Since(t) == now - t

NoArgs == [op |-> None]
NoRet  == [found |-> FALSE, values |-> ""]

InitCache ==
    /\ entries = <<>>
    /\ mu = [readers |-> {}, writer |-> 0]
    /\ now = 0
    /\ pc = [p \in Procs |-> "idle"]
    /\ args = [p \in Procs |-> NoArgs]
    /\ ret = [p \in Procs |-> NoRet]
    /\ lastSet = <<>>
    /\ dropped = {}

\* A caller invokes Get(chartName, version).
CallGet(p, n, v) ==
    /\ pc[p] = "idle"
    /\ pc' = [pc EXCEPT ![p] = "GetRLock"]
    /\ args' = [args EXCEPT ![p] = [op |-> "Get", chartName |-> n, version |-> v]]
    /\ UNCHANGED <<entries, mu, now, ret, lastSet, dropped>>

\* A plausible slip: Get goes on without waiting for the lock (no RLock), so it can
\* read while a Set or a Clear is inside its critical section.
GetRLockPastWriter(p) ==
    /\ pc[p] = "GetRLock"
    /\ mu' = [mu EXCEPT !.readers = @ \cup {p}]
    /\ pc' = [pc EXCEPT ![p] = "GetBody"]
    /\ UNCHANGED <<entries, now, args, ret, lastSet, dropped>>

\* c.mu.RLock(): granted when no writer holds the lock and none is pending
\* (sync.RWMutex: "a blocked Lock call excludes new readers from acquiring the lock").
GetRLock(p) ==
    /\ pc[p] = "GetRLock"
    /\ mu.writer = 0
    /\ mu' = [mu EXCEPT !.readers = @ \cup {p}]
    /\ pc' = [pc EXCEPT ![p] = "GetBody"]
    /\ UNCHANGED <<entries, now, args, ret, lastSet, dropped>>

\* A plausible slip: '>=' for '>' in the expiry test, so an entry as old as the
\* TTL is a miss.
GetValueExpiringAtTTL(key) ==
    IF key \notin DOMAIN entries
    THEN [found |-> FALSE, values |-> ""]
    ELSE IF Since(entries[key].timestamp) >= TTL
         THEN [found |-> FALSE, values |-> ""]
         ELSE [found |-> TRUE, values |-> entries[key].values]

\* The body of Get (lines 45-56): what it returns for key at the current clock.
GetValue(key) ==
    IF key \notin DOMAIN entries
    THEN [found |-> FALSE, values |-> ""]
    ELSE IF Since(entries[key].timestamp) > TTL
         THEN [found |-> FALSE, values |-> ""]
         ELSE [found |-> TRUE, values |-> entries[key].values]

\* A plausible slip: Get deletes the entry it finds expired.
GetBodyEvictingExpired(p) ==
    LET key == buildKey(args[p].chartName, args[p].version)
    IN  /\ pc[p] = "GetBody"
        /\ ret' = [ret EXCEPT ![p] = GetValue(key)]
        /\ entries' = IF key \in DOMAIN entries /\ Since(entries[key].timestamp) > TTL
                      THEN [k \in DOMAIN entries \ {key} |-> entries[k]]
                      ELSE entries
        /\ pc' = [pc EXCEPT ![p] = "GetRUnlock"]
        /\ UNCHANGED <<mu, now, args, lastSet, dropped>>

\* The body of Get between RLock and the deferred RUnlock (lines 45-56).
GetBody(p) ==
    /\ pc[p] = "GetBody"
    /\ ret' = [ret EXCEPT ![p] = GetValue(buildKey(args[p].chartName, args[p].version))]
    /\ pc' = [pc EXCEPT ![p] = "GetRUnlock"]
    /\ UNCHANGED <<entries, mu, now, args, lastSet, dropped>>

\* defer c.mu.RUnlock(), then the return to the caller.
GetRUnlock(p) ==
    /\ pc[p] = "GetRUnlock"
    /\ mu' = [mu EXCEPT !.readers = @ \ {p}]
    /\ pc' = [pc EXCEPT ![p] = "idle"]
    /\ args' = [args EXCEPT ![p] = NoArgs]
    /\ ret' = [ret EXCEPT ![p] = NoRet]
    /\ UNCHANGED <<entries, now, lastSet, dropped>>

\* A caller invokes Set(chartName, version, values).
CallSet(p, n, v, t) ==
    /\ pc[p] = "idle"
    /\ pc' = [pc EXCEPT ![p] = "SetLock"]
    /\ args' = [args EXCEPT ![p] =
                  [op |-> "Set", chartName |-> n, version |-> v, values |-> t]]
    /\ UNCHANGED <<entries, mu, now, ret, lastSet, dropped>>

\* A plausible slip: Set takes the shared lock (RLock) instead of the exclusive one.
SetLockShared(p) ==
    /\ pc[p] = "SetLock"
    /\ mu.writer = 0
    /\ mu' = [mu EXCEPT !.readers = @ \cup {p}]
    /\ pc' = [pc EXCEPT ![p] = "SetBody"]
    /\ UNCHANGED <<entries, now, args, ret, lastSet, dropped>>

\* c.mu.Lock(), first half: the caller becomes the pending writer once no other
\* writer holds or awaits the lock; from here on new readers wait.
SetLock(p) ==
    /\ pc[p] = "SetLock"
    /\ mu.writer = 0
    /\ mu' = [mu EXCEPT !.writer = p]
    /\ pc' = [pc EXCEPT ![p] = "SetLockWait"]
    /\ UNCHANGED <<entries, now, args, ret, lastSet, dropped>>

\* c.mu.Lock(), second half: Lock returns when the readers that held the lock have
\* released it.
SetLockGranted(p) ==
    /\ pc[p] = "SetLockWait"
    /\ mu.writer = p
    /\ mu.readers = {}
    /\ pc' = [pc EXCEPT ![p] = "SetBody"]
    /\ UNCHANGED <<entries, mu, now, args, ret, lastSet, dropped>>

\* m[key] = v on a Go map held as a function
MapPut(m, key, v) ==
    [k \in DOMAIN m \cup {key} |-> IF k = key THEN v ELSE m[k]]

\* A plausible slip: Set keeps an entry that is already there.
StoreIfAbsent(key, values) ==
    IF key \in DOMAIN entries
    THEN entries
    ELSE MapPut(entries, key, [values |-> values, timestamp |-> now])

\* A plausible slip: Set on a resident key replaces the text in place and keeps the
\* timestamp of the entry.
StoreKeepingTimestamp(key, values) ==
    IF key \in DOMAIN entries
    THEN MapPut(entries, key, [values |-> values, timestamp |-> entries[key].timestamp])
    ELSE MapPut(entries, key, [values |-> values, timestamp |-> now])

\* c.entries[key] = CacheEntry{values: values, timestamp: time.Now()}
Store(key, values) ==
    MapPut(entries, key, [values |-> values, timestamp |-> now])

SetBody(p) ==
    /\ pc[p] = "SetBody"
    /\ entries' = Store(buildKey(args[p].chartName, args[p].version), args[p].values)
    /\ lastSet' = MapPut(lastSet, buildKey(args[p].chartName, args[p].version),
                          [values |-> args[p].values, at |-> now])
    /\ dropped' = dropped \ {buildKey(args[p].chartName, args[p].version)}
    /\ pc' = [pc EXCEPT ![p] = "SetUnlock"]
    /\ UNCHANGED <<mu, now, args, ret>>

\* A plausible slip: Set returns without the deferred Unlock.
SetReturnKeepingLock(p) ==
    /\ pc[p] = "SetUnlock"
    /\ pc' = [pc EXCEPT ![p] = "idle"]
    /\ args' = [args EXCEPT ![p] = NoArgs]
    /\ UNCHANGED <<entries, mu, now, ret, lastSet, dropped>>

\* defer c.mu.Unlock()
SetUnlock(p) ==
    /\ pc[p] = "SetUnlock"
    /\ mu' = [mu EXCEPT !.writer = 0]
    /\ pc' = [pc EXCEPT ![p] = "idle"]
    /\ args' = [args EXCEPT ![p] = NoArgs]
    /\ UNCHANGED <<entries, now, ret, lastSet, dropped>>

\* A caller invokes Clear().
CallClear(p) ==
    /\ pc[p] = "idle"
    /\ pc' = [pc EXCEPT ![p] = "ClearLock"]
    /\ args' = [args EXCEPT ![p] = [op |-> "Clear"]]
    /\ UNCHANGED <<entries, mu, now, ret, lastSet, dropped>>

\* c.mu.Lock() in Clear, in the same two halves.
ClearLock(p) ==
    /\ pc[p] = "ClearLock"
    /\ mu.writer = 0
    /\ mu' = [mu EXCEPT !.writer = p]
    /\ pc' = [pc EXCEPT ![p] = "ClearLockWait"]
    /\ UNCHANGED <<entries, now, args, ret, lastSet, dropped>>

ClearLockGranted(p) ==
    /\ pc[p] = "ClearLockWait"
    /\ mu.writer = p
    /\ mu.readers = {}
    /\ pc' = [pc EXCEPT ![p] = "ClearBody"]
    /\ UNCHANGED <<entries, mu, now, args, ret, lastSet, dropped>>

\* A plausible slip: Clear drops only the entries older than the TTL.
ClearBodyExpiredOnly(p) ==
    /\ pc[p] = "ClearBody"
    /\ entries' = [k \in { k \in DOMAIN entries : Since(entries[k].timestamp) <= TTL }
                      |-> entries[k]]
    /\ lastSet' = <<>>
    /\ dropped' = DOMAIN entries
    /\ pc' = [pc EXCEPT ![p] = "ClearUnlock"]
    /\ UNCHANGED <<mu, now, args, ret>>

\* c.entries = make(map[string]CacheEntry)
ClearBody(p) ==
    /\ pc[p] = "ClearBody"
    /\ entries' = <<>>
    /\ lastSet' = <<>>
    /\ dropped' = DOMAIN entries
    /\ pc' = [pc EXCEPT ![p] = "ClearUnlock"]
    /\ UNCHANGED <<mu, now, args, ret>>

ClearUnlock(p) ==
    /\ pc[p] = "ClearUnlock"
    /\ mu' = [mu EXCEPT !.writer = 0]
    /\ pc' = [pc EXCEPT ![p] = "idle"]
    /\ args' = [args EXCEPT ![p] = NoArgs]
    /\ UNCHANGED <<entries, now, ret, lastSet, dropped>>

\* The wall clock advances.
Tick ==
    /\ now + ClockStep <= MaxClock
    /\ now' = now + ClockStep
    /\ UNCHANGED <<entries, mu, pc, args, ret, lastSet, dropped>>

(***************************************************************************)
(* Strings as sequences of characters                                      *)
(***************************************************************************)

\* unicode.IsSpace, for the characters that occur in the inputs
IsSpace(ch) == ch \in {" ", "\t", "\n", "\r"}

RECURSIVE TrimLeft(_)
TrimLeft(s) ==
    IF s # <<>> /\ IsSpace(Head(s)) THEN TrimLeft(Tail(s)) ELSE s

RECURSIVE TrimRight(_)
TrimRight(s) ==
    IF s # <<>> /\ IsSpace(s[Len(s)]) THEN TrimRight(SubSeq(s, 1, Len(s) - 1)) ELSE s

\* strings.TrimSpace
TrimSpace(s) == TrimRight(TrimLeft(s))

\* strings.HasPrefix(s, ch) for a one-character prefix
HasPrefix(s, ch) == s # <<>> /\ Head(s) = ch

\* strings.Index(s, ch) for a one-character needle: 0-based, -1 when absent
Index(s, ch) ==
    IF \E i \in 1..Len(s) : s[i] = ch
    THEN (CHOOSE i \in 1..Len(s) : s[i] = ch /\ \A j \in 1..(i - 1) : s[j] # ch) - 1
    ELSE -1

\* strings.Split(s, "\n"): never empty, "" splits to one empty line
RECURSIVE Split(_)
Split(s) ==
    LET idx == Index(s, "\n")
    IN  IF idx < 0
        THEN <<s>>
        ELSE <<SubSeq(s, 1, idx)>> \o Split(SubSeq(s, idx + 2, Len(s)))

\* strings.Join(parts, sep) for a one-character separator
RECURSIVE Join(_, _)
Join(parts, sep) ==
    IF parts = <<>> THEN <<>>
    ELSE IF Len(parts) = 1 THEN parts[1]
    ELSE parts[1] \o <<sep>> \o Join(Tail(parts), sep)

\* lines[i] with Go's 0-based index
At(ls, i) == ls[i + 1]

\* getIndentLevel: a space counts 1, a tab counts 2, up to the first other character
RECURSIVE getIndentLevel(_)
getIndentLevel(line) ==
    IF line = <<>> THEN 0
    ELSE IF Head(line) = " " THEN 1 + getIndentLevel(Tail(line))
    ELSE IF Head(line) = "\t" THEN 2 + getIndentLevel(Tail(line))
    ELSE 0

\* extractKey: the trimmed text before the first ':', "" when there is none or it is first
extractKey(line) ==
    LET trimmed == TrimSpace(line)
        idx == Index(trimmed, ":")
    IN  IF idx > 0 THEN SubSeq(trimmed, 1, idx) ELSE <<>>

\* trimmed == "" || strings.HasPrefix(trimmed, "#")
IsBlankOrComment(line) ==
    LET trimmed == TrimSpace(line)
    IN  trimmed = <<>> \/ HasPrefix(trimmed, "#")

(***************************************************************************)
(* GetYAMLPath                                                             *)
(***************************************************************************)

\* A plausible slip: the test of line 62 without its second alternative, so only a
\* line of smaller indent is adopted.
RECURSIVE ParentSearchBelowOnly(_, _, _, _)
ParentSearchBelowOnly(ls, i, currentIndent, isListItem) ==
    IF i < 0 THEN -1
    ELSE LET line == At(ls, i)
         IN  IF IsBlankOrComment(line)
             THEN ParentSearchBelowOnly(ls, i - 1, currentIndent, isListItem)
             ELSE IF getIndentLevel(line) < currentIndent /\ extractKey(line) # <<>>
                  THEN i
                  ELSE ParentSearchBelowOnly(ls, i - 1, currentIndent, isListItem)

\* The parent search (the loop of lines 42-73) from index i downward: the index of
\* the line adopted as the new target, -1 when the loop ends without one.
RECURSIVE ParentSearch(_, _, _, _)
ParentSearch(ls, i, currentIndent, isListItem) ==
    IF i < 0 THEN -1
    ELSE LET line == At(ls, i)
         IN  IF IsBlankOrComment(line)
             THEN ParentSearch(ls, i - 1, currentIndent, isListItem)
             ELSE LET indent == getIndentLevel(line)
                      targetIndent ==
                          IF isListItem
                          THEN (IF currentIndent - 2 < 0 THEN 0 ELSE currentIndent - 2)
                          ELSE currentIndent
                      field == extractKey(line)
                  IN  IF /\ \/ indent < currentIndent
                            \/ (indent = targetIndent /\ field # <<>>)
                         /\ field # <<>>
                      THEN i
                      ELSE ParentSearch(ls, i - 1, currentIndent, isListItem)

\* A plausible slip: '<=' for '<' in the test of line 93, so a sibling at the same
\* indent is taken for an ancestor.
RECURSIVE WalkParentsTakingSiblings(_, _, _, _)
WalkParentsTakingSiblings(ls, i, currentIndent, path) ==
    IF i < 0 THEN path
    ELSE LET line == At(ls, i)
         IN  IF IsBlankOrComment(line)
             THEN WalkParentsTakingSiblings(ls, i - 1, currentIndent, path)
             ELSE LET indent == getIndentLevel(line)
                      field == extractKey(line)
                      take == indent <= currentIndent /\ field # <<>>
                      path2 == IF take THEN <<field>> \o path ELSE path
                      indent2 == IF take THEN indent ELSE currentIndent
                  IN  IF indent = 0
                      THEN path2
                      ELSE WalkParentsTakingSiblings(ls, i - 1, indent2, path2)

\* The ancestor walk (the loop of lines 84-104) from index i downward: path is the
\* list of keys collected so far, root first.
RECURSIVE WalkParents(_, _, _, _)
WalkParents(ls, i, currentIndent, path) ==
    IF i < 0 THEN path
    ELSE LET line == At(ls, i)
         IN  IF IsBlankOrComment(line)
             THEN WalkParents(ls, i - 1, currentIndent, path)
             ELSE LET indent == getIndentLevel(line)
                      field == extractKey(line)
                      take == indent < currentIndent /\ field # <<>>
                      path2 == IF take THEN <<field>> \o path ELSE path
                      indent2 == IF take THEN indent ELSE currentIndent
                  IN  IF indent = 0
                      THEN path2
                      ELSE WalkParents(ls, i - 1, indent2, path2)

\* A plausible slip: the walk does not lower currentIndent when it takes a line
\* (line 97 left out), so every line below the target's indent is taken.
RECURSIVE WalkSourcesKeepingIndent(_, _, _, _)
WalkSourcesKeepingIndent(ls, i, currentIndent, srcs) ==
    IF i < 0 THEN srcs
    ELSE LET line == At(ls, i)
         IN  IF IsBlankOrComment(line)
             THEN WalkSourcesKeepingIndent(ls, i - 1, currentIndent, srcs)
             ELSE LET indent == getIndentLevel(line)
                      take == indent < currentIndent /\ extractKey(line) # <<>>
                      srcs2 == IF take THEN <<i>> \o srcs ELSE srcs
                  IN  IF indent = 0
                      THEN srcs2
                      ELSE WalkSourcesKeepingIndent(ls, i - 1, currentIndent, srcs2)

\* The ancestor walk (the loop of lines 84-104) again, collecting the indices of the
\* lines whose keys it prepends instead of the keys.
RECURSIVE WalkSources(_, _, _, _)
WalkSources(ls, i, currentIndent, srcs) ==
    IF i < 0 THEN srcs
    ELSE LET line == At(ls, i)
         IN  IF IsBlankOrComment(line)
             THEN WalkSources(ls, i - 1, currentIndent, srcs)
             ELSE LET indent == getIndentLevel(line)
                      take == indent < currentIndent /\ extractKey(line) # <<>>
                      srcs2 == IF take THEN <<i>> \o srcs ELSE srcs
                      indent2 == IF take THEN indent ELSE currentIndent
                  IN  IF indent = 0
                      THEN srcs2
                      ELSE WalkSources(ls, i - 1, indent2, srcs2)

\* A plausible slip: the comment test of line 30 left out.
PathTargetNoCommentTest(ls, n) ==
    IF n < 0 \/ n >= Len(ls) THEN -1
    ELSE LET currentLine == At(ls, n)
             trimmedLine == TrimSpace(currentLine)
         IN  IF trimmedLine = <<>> THEN -1
             ELSE IF extractKey(currentLine) # <<>> THEN n
             ELSE ParentSearch(ls, n - 1, getIndentLevel(currentLine),
                               HasPrefix(trimmedLine, "-"))

\* The (possibly adjusted) target of GetYAMLPath: the index of the line whose key
\* ends the path, -1 when the function returns "" before the ancestor walk.
PathTarget(ls, n) ==
    IF n < 0 \/ n >= Len(ls) THEN -1
    ELSE LET currentLine == At(ls, n)
             trimmedLine == TrimSpace(currentLine)
         IN  IF trimmedLine = <<>> \/ HasPrefix(trimmedLine, "#") THEN -1
             ELSE IF extractKey(currentLine) # <<>> THEN n
             ELSE ParentSearch(ls, n - 1, getIndentLevel(currentLine),
                               HasPrefix(trimmedLine, "-"))

\* The indices the parent search (the loop of lines 42-73) reads from index i
\* downward: one per iteration, until a line is adopted or i falls below 0.
RECURSIVE SearchReads(_, _, _, _)
SearchReads(ls, i, currentIndent, isListItem) ==
    IF i < 0 THEN {}
    ELSE IF ParentSearch(ls, i, currentIndent, isListItem) = i THEN {i}
    ELSE {i} \cup SearchReads(ls, i - 1, currentIndent, isListItem)

\* The indices the ancestor walk (the loop of lines 84-104) reads from index i
\* downward: one per iteration, until a line of indent 0 or i falls below 0.
RECURSIVE WalkReads(_, _)
WalkReads(ls, i) ==
    IF i < 0 THEN {}
    ELSE IF ~IsBlankOrComment(At(ls, i)) /\ getIndentLevel(At(ls, i)) = 0 THEN {i}
    ELSE {i} \cup WalkReads(ls, i - 1)

\* A plausible slip: the range test of line 22 left out, so that line 26 reads
\* lines[lineNum] whatever the index.
FirstReadWithoutRangeTest(ls, n) == {n}

\* The index line 26 reads: none when the range test of line 22 returns first.
FirstRead(ls, n) == IF n < 0 \/ n >= Len(ls) THEN {} ELSE {n}

\* Every index at which GetYAMLPath(ls, n) reads ls.
PathReads(ls, n) ==
    FirstRead(ls, n) \cup
    (IF n < 0 \/ n >= Len(ls) \/ IsBlankOrComment(At(ls, n)) THEN {}
     ELSE LET currentLine == At(ls, n)
              t == PathTarget(ls, n)
          IN  (IF extractKey(currentLine) # <<>> THEN {}
               ELSE SearchReads(ls, n - 1, getIndentLevel(currentLine),
                                HasPrefix(TrimSpace(currentLine), "-")))
              \cup (IF t < 0 THEN {} ELSE WalkReads(ls, t - 1)))

\* The indices of the lines that give the segments of GetYAMLPath(ls, n), root
\* first: those the ancestor walk takes, then the (possibly adjusted) target.
PathSources(ls, n) ==
    LET t == PathTarget(ls, n)
    IN  IF t < 0 THEN <<>>
        ELSE WalkSources(ls, t - 1, getIndentLevel(At(ls, t)), <<>>) \o <<t>>

GetYAMLPath(ls, n) ==
    LET t == PathTarget(ls, n)
    IN  IF t < 0 THEN <<>>
        ELSE LET currentField == extractKey(At(ls, t))
                 path == WalkParents(ls, t - 1, getIndentLevel(At(ls, t)), <<>>)
             IN  Join(path \o <<currentField>>, ".")

(***************************************************************************)
(* DiffYAML                                                                *)
(***************************************************************************)

\* contextLines := 2
contextLines == 2

\* A plausible slip: the first line carrying a key is kept, later ones are ignored.
RECURSIVE BuildMapFirstWins(_, _)
BuildMapFirstWins(ls, n) ==
    IF n = 0 THEN <<>>
    ELSE LET m == BuildMapFirstWins(ls, n - 1)
             key == extractKey(ls[n])
         IN  IF key # <<>> /\ key \notin DOMAIN m
             THEN MapPut(m, key, [line |-> ls[n], lineNum |-> n - 1])
             ELSE m

\* The map-building loops (lines 152-170) over the first n lines: a later line with
\* the same key overwrites the earlier one.
RECURSIVE BuildMap(_, _)
BuildMap(ls, n) ==
    IF n = 0 THEN <<>>
    ELSE LET m == BuildMap(ls, n - 1)
             key == extractKey(ls[n])
         IN  IF key # <<>>
             THEN MapPut(m, key, [line |-> ls[n], lineNum |-> n - 1])
             ELSE m

\* A plausible slip: '==' for '!=' in the comparison of line 181, so the keys whose
\* text is the same on both sides are the ones marked.
IsChangeInverted(oldMap, newMap) ==
    { newMap[key].lineNum : key \in
        { k \in DOMAIN newMap :
            IF k \in DOMAIN oldMap
            THEN oldMap[k].line = newMap[k].line
            ELSE TRUE } }

\* isChange (lines 176-189): the new-side line numbers marked as modified or added
IsChange(oldMap, newMap) ==
    { newMap[key].lineNum : key \in
        { k \in DOMAIN newMap :
            IF k \in DOMAIN oldMap
            THEN oldMap[k].line # newMap[k].line
            ELSE TRUE } }

\* removedKeys (lines 192-197), as a set: Go ranges over oldMap in an unspecified
\* order, so the slice is any arrangement of this set.
RemovedKeySet(oldMap, newMap) ==
    { k \in DOMAIN oldMap : k \notin DOMAIN newMap }

\* Every order in which the range over oldMap can deliver the keys of S.
Orders(S) ==
    { f \in [1..Cardinality(S) -> S] : \A i, j \in 1..Cardinality(S) : f[i] = f[j] => i = j }

DiffLine(type, line, n) == [Type |-> type, Line |-> line, LineNum |-> n]

\* A plausible slip: the window looks forward only (j starts at i).
HasNearbyChangeForward(isChange, i) ==
    \E j \in i..(i + contextLines) : j \in isChange

\* hasNearbyChange (lines 204-210)
HasNearbyChange(isChange, i) ==
    \E j \in (i - contextLines)..(i + contextLines) : j \in isChange

\* A plausible slip: the two appends of lines 220-221 in the other order.
EmitLineAddedFirst(oldMap, isChange, newLines, i) ==
    LET newLine == At(newLines, i)
        key == extractKey(newLine)
    IN  IF ~HasNearbyChange(isChange, i) THEN <<>>
        ELSE IF key # <<>>
        THEN IF key \in DOMAIN oldMap
             THEN IF oldMap[key].line # newLine
                  THEN << DiffLine("added", newLine, i),
                          DiffLine("removed", oldMap[key].line, oldMap[key].lineNum) >>
                  ELSE << DiffLine("unchanged", newLine, i) >>
             ELSE << DiffLine("added", newLine, i) >>
        ELSE << DiffLine("unchanged", newLine, i) >>

\* What the main pass appends for new line i (lines 201-233).
EmitLine(oldMap, isChange, newLines, i) ==
    LET newLine == At(newLines, i)
        key == extractKey(newLine)
    IN  IF ~HasNearbyChange(isChange, i) THEN <<>>
        ELSE IF key # <<>>
        THEN IF key \in DOMAIN oldMap
             THEN IF oldMap[key].line # newLine
                  THEN << DiffLine("removed", oldMap[key].line, oldMap[key].lineNum),
                          DiffLine("added", newLine, i) >>
                  ELSE << DiffLine("unchanged", newLine, i) >>
             ELSE << DiffLine("added", newLine, i) >>
        ELSE << DiffLine("unchanged", newLine, i) >>

\* A plausible slip: the main pass ranges over the new lines from the last to the
\* first.
RECURSIVE MainPassDescending(_, _, _, _)
MainPassDescending(oldMap, isChange, newLines, n) ==
    IF n = 0 THEN <<>>
    ELSE EmitLine(oldMap, isChange, newLines, n - 1)
            \o MainPassDescending(oldMap, isChange, newLines, n - 1)

\* The main pass (lines 200-234) over new lines 0..n-1.
RECURSIVE MainPass(_, _, _, _)
MainPass(oldMap, isChange, newLines, n) ==
    IF n = 0 THEN <<>>
    ELSE MainPass(oldMap, isChange, newLines, n - 1)
            \o EmitLine(oldMap, isChange, newLines, n - 1)

\* A plausible slip: the trailing records number the old lines from 1.
RemovedTailFromOne(oldMap, order) ==
    [i \in 1..Len(order) |->
        DiffLine("removed", oldMap[order[i]].line, oldMap[order[i]].lineNum + 1)]

\* The trailing records (lines 237-240) for removedKeys in the given order.
RemovedTail(oldMap, order) ==
    [i \in 1..Len(order) |->
        DiffLine("removed", oldMap[order[i]].line, oldMap[order[i]].lineNum)]

\* A plausible slip: the records of the keys carried by the old text alone are put
\* before the main pass.
DiffYAMLRemovedFirst(oldText, newText) ==
    LET oldLines == Split(oldText)
        newLines == Split(newText)
        oldMap == BuildMap(oldLines, Len(oldLines))
        newMap == BuildMap(newLines, Len(newLines))
        main == MainPass(oldMap, IsChange(oldMap, newMap), newLines, Len(newLines))
    IN  { RemovedTail(oldMap, order) \o main :
            order \in Orders(RemovedKeySet(oldMap, newMap)) }

\* DiffYAML: the results a call can return, one for each order in which the range
\* over oldMap can deliver the removed keys.
DiffYAML(oldText, newText) ==
    LET oldLines == Split(oldText)
        newLines == Split(newText)
        oldMap == BuildMap(oldLines, Len(oldLines))
        newMap == BuildMap(newLines, Len(newLines))
        main == MainPass(oldMap, IsChange(oldMap, newMap), newLines, Len(newLines))
    IN  { main \o RemovedTail(oldMap, order) :
            order \in Orders(RemovedKeySet(oldMap, newMap)) }

(***************************************************************************)
(* Inputs                                                                  *)
(***************************************************************************)

\* Bounds of the inputs.
MaxOldLines  == 2
MaxNewLines  == 3
MaxPathLines == 4

\* All sequences over S of length 1..n
SeqsUpTo(S, n) == UNION { [1..k -> S] : k \in 1..n }

\* Lines the diffed texts are made of: keyed lines (one key at two indents with two
\* values, a second key), a blank line (the keyless line) and a comment holding a ':'.
DiffPool ==
    { <<"a", ":", " ", "1">>,
      <<" ", "a", ":", " ", "2">>,
      <<"b", ":", " ", "1">>,
      <<>>,
      <<"#", "c", ":", " ", "1">> }

OldTexts == { Join(ls, "\n") : ls \in SeqsUpTo(DiffPool, MaxOldLines) }
NewTexts == { Join(ls, "\n") : ls \in SeqsUpTo(DiffPool, MaxNewLines) }

\* Bounds of the longer texts, in which a line can stand more than contextLines
\* away from every change.
MaxWindowOldLines == 1
MaxWindowNewLines == 4

\* Lines the longer texts are made of: one key with two values, a list item holding
\* a ':', a comment holding a ':' and a blank line.
WindowPool ==
    { <<"a", ":", " ", "1">>,
      <<"a", ":", " ", "2">>,
      <<"-", " ", "d", ":", " ", "1">>,
      <<"#", "c", ":", " ", "1">>,
      <<>> }

WindowOldTexts == { Join(ls, "\n") : ls \in SeqsUpTo(WindowPool, MaxWindowOldLines) }
WindowNewTexts == { Join(ls, "\n") : ls \in SeqsUpTo(WindowPool, MaxWindowNewLines) }

\* Lines the resolved documents are made of: keyed lines at indents 0, 1, 2 (by
\* spaces and by a tab) and 4, list items at indents 0, 2 and 4, a list item holding
\* a ':', a keyless continuation line, a blank line and a comment holding a ':'.
PathPool ==
    { <<"a", ":">>,
      <<" ", "e", ":">>,
      <<" ", " ", "b", ":", " ", "x">>,
      <<"\t", "g", ":">>,
      <<" ", " ", " ", " ", "c", ":">>,
      <<"-", " ", "f">>,
      <<" ", " ", "-", " ", "f">>,
      <<" ", " ", " ", " ", "-", " ", "f">>,
      <<" ", " ", "-", " ", "k", ":", " ", "v">>,
      <<" ", " ", "x">>,
      <<>>,
      <<"#", "c", ":">> }

Documents == {<<>>} \cup SeqsUpTo(PathPool, MaxPathLines)

\* The values the components hold while another component is exercised.
DiffIdle ==
    /\ oldContent = <<>>
    /\ newContent = <<>>
    /\ diffResult = <<>>
    /\ diffPrev = <<>>
    /\ diffCalls = 0

PathIdle ==
    /\ lines = <<>>
    /\ lineNum = 0
    /\ pathResult = <<>>
    /\ pathDone = FALSE

(***************************************************************************)
(* Spec: the cache under concurrent callers                                *)
(***************************************************************************)

\* No loader has called the helm client.
LoadIdle == fetchLog = {}

Init == InitCache /\ DiffIdle /\ PathIdle /\ LoadIdle

Next ==
    \/ \E p \in Procs, nv \in Pairs :
          CallGet(p, nv[1], nv[2]) /\ UNCHANGED <<diffVars, pathVars, loadVars>>
    \/ \E p \in Procs : GetRLock(p) /\ UNCHANGED <<diffVars, pathVars, loadVars>>
    \/ \E p \in Procs : GetBody(p) /\ UNCHANGED <<diffVars, pathVars, loadVars>>
    \/ \E p \in Procs : GetRUnlock(p) /\ UNCHANGED <<diffVars, pathVars, loadVars>>
    \/ \E p \in Procs, nv \in Pairs, t \in Values :
          CallSet(p, nv[1], nv[2], t) /\ UNCHANGED <<diffVars, pathVars, loadVars>>
    \/ \E p \in Procs : SetLock(p) /\ UNCHANGED <<diffVars, pathVars, loadVars>>
    \/ \E p \in Procs : SetLockGranted(p) /\ UNCHANGED <<diffVars, pathVars, loadVars>>
    \/ \E p \in Procs : SetBody(p) /\ UNCHANGED <<diffVars, pathVars, loadVars>>
    \/ \E p \in Procs : SetUnlock(p) /\ UNCHANGED <<diffVars, pathVars, loadVars>>
    \/ \E p \in Procs : CallClear(p) /\ UNCHANGED <<diffVars, pathVars, loadVars>>
    \/ \E p \in Procs : ClearLock(p) /\ UNCHANGED <<diffVars, pathVars, loadVars>>
    \/ \E p \in Procs : ClearLockGranted(p) /\ UNCHANGED <<diffVars, pathVars, loadVars>>
    \/ \E p \in Procs : ClearBody(p) /\ UNCHANGED <<diffVars, pathVars, loadVars>>
    \/ \E p \in Procs : ClearUnlock(p) /\ UNCHANGED <<diffVars, pathVars, loadVars>>
    \/ Tick /\ UNCHANGED <<diffVars, pathVars, loadVars>>

Spec == Init /\ [][Next]_vars

(***************************************************************************)
(* LiveSpec: the cache under fairly scheduled callers                      *)
(***************************************************************************)

\* The callers of LiveSpec all work on one pair and one text: which caller waits
\* for which depends on the operations in progress, not on their arguments.
LivePairs  == { <<"a", "1">> }
LiveValues == { "t1" }

LiveNext ==
    \/ \E p \in Procs, nv \in LivePairs :
          CallGet(p, nv[1], nv[2]) /\ UNCHANGED <<diffVars, pathVars, loadVars>>
    \/ \E p \in Procs : GetRLock(p) /\ UNCHANGED <<diffVars, pathVars, loadVars>>
    \/ \E p \in Procs : GetBody(p) /\ UNCHANGED <<diffVars, pathVars, loadVars>>
    \/ \E p \in Procs : GetRUnlock(p) /\ UNCHANGED <<diffVars, pathVars, loadVars>>
    \/ \E p \in Procs, nv \in LivePairs, t \in LiveValues :
          CallSet(p, nv[1], nv[2], t) /\ UNCHANGED <<diffVars, pathVars, loadVars>>
    \/ \E p \in Procs : SetLock(p) /\ UNCHANGED <<diffVars, pathVars, loadVars>>
    \/ \E p \in Procs : SetLockGranted(p) /\ UNCHANGED <<diffVars, pathVars, loadVars>>
    \/ \E p \in Procs : SetBody(p) /\ UNCHANGED <<diffVars, pathVars, loadVars>>
    \/ \E p \in Procs : SetUnlock(p) /\ UNCHANGED <<diffVars, pathVars, loadVars>>
    \/ \E p \in Procs : CallClear(p) /\ UNCHANGED <<diffVars, pathVars, loadVars>>
    \/ \E p \in Procs : ClearLock(p) /\ UNCHANGED <<diffVars, pathVars, loadVars>>
    \/ \E p \in Procs : ClearLockGranted(p) /\ UNCHANGED <<diffVars, pathVars, loadVars>>
    \/ \E p \in Procs : ClearBody(p) /\ UNCHANGED <<diffVars, pathVars, loadVars>>
    \/ \E p \in Procs : ClearUnlock(p) /\ UNCHANGED <<diffVars, pathVars, loadVars>>
    \/ Tick /\ UNCHANGED <<diffVars, pathVars, loadVars>>

\* The steps of caller p that wait for nothing, and those that wait for the lock.
Running(p) ==
    \/ GetBody(p) \/ GetRUnlock(p)
    \/ SetLockGranted(p) \/ SetBody(p) \/ SetUnlock(p)
    \/ ClearLockGranted(p) \/ ClearBody(p) \/ ClearUnlock(p)

Acquiring(p) == GetRLock(p) \/ SetLock(p) \/ ClearLock(p)

\* Fair scheduling: a caller inside an operation keeps running (weak fairness of
\* its steps; a pending writer is granted the lock once the readers have left, and
\* none can join them), and a caller waiting in RLock or Lock is not passed over
\* for ever: the readers a writer held back share the lock when it unlocks, and the
\* writers' mutex hands over to a waiter that has starved (strong fairness of the
\* acquisitions). Callers need not call, and the clock need not advance.
Fairness ==
    \A p \in Procs :
        /\ WF_vars(Running(p) /\ UNCHANGED <<diffVars, pathVars, loadVars>>)
        /\ SF_vars(Acquiring(p) /\ UNCHANGED <<diffVars, pathVars, loadVars>>)

LiveSpec == Init /\ [][LiveNext]_vars /\ Fairness

(***************************************************************************)
(* DiffSpec: DiffYAML called on every pair of bounded texts                *)
(***************************************************************************)

DiffInit ==
    /\ InitCache
    /\ LoadIdle
    /\ PathIdle
    /\ oldContent \in OldTexts
    /\ newContent \in NewTexts
    /\ diffResult = <<>>
    /\ diffPrev = <<>>
    /\ diffCalls = 0

\* One call DiffYAML(oldContent, newContent). The texts are diffed twice: two
\* results are what a comparison of calls needs.
DiffCall ==
    /\ diffCalls < 2
    /\ diffResult' \in DiffYAML(oldContent, newContent)
    /\ diffPrev' = diffResult
    /\ diffCalls' = diffCalls + 1
    /\ UNCHANGED <<oldContent, newContent, cacheVars, pathVars, loadVars>>

DiffNext == DiffCall

DiffSpec == DiffInit /\ [][DiffNext]_vars

(***************************************************************************)
(* WindowSpec: DiffYAML called on a short old text and a longer new text   *)
(***************************************************************************)

WindowInit ==
    /\ InitCache
    /\ LoadIdle
    /\ PathIdle
    /\ oldContent \in WindowOldTexts
    /\ newContent \in WindowNewTexts
    /\ diffResult = <<>>
    /\ diffPrev = <<>>
    /\ diffCalls = 0

WindowSpec == WindowInit /\ [][DiffNext]_vars

(***************************************************************************)
(* PathSpec: GetYAMLPath called on every bounded document and index        *)
(***************************************************************************)

PathInit ==
    /\ InitCache
    /\ LoadIdle
    /\ DiffIdle
    /\ lines \in Documents
    /\ lineNum \in -1..MaxPathLines
    /\ pathResult = <<>>
    /\ pathDone = FALSE

\* One call GetYAMLPath(lines, lineNum).
PathCall ==
    /\ ~pathDone
    /\ pathResult' = GetYAMLPath(lines, lineNum)
    /\ pathDone' = TRUE
    /\ UNCHANGED <<lines, lineNum, cacheVars, diffVars, loadVars>>

PathNext == PathCall

PathSpec == PathInit /\ [][PathNext]_vars

(***************************************************************************)
(* TotalSpec: both functions called on short inputs, the empty line        *)
(* sequence, the empty text and indices outside the lines among them       *)
(***************************************************************************)

\* Bound of the inputs: lines of a document, lines of a text.
MaxTotalLines == 2

TotalDocuments == {<<>>} \cup SeqsUpTo(PathPool, MaxTotalLines)
TotalIndices   == (0 - 2)..(MaxTotalLines + 1)
TotalTexts     == { Join(ls, "\n") : ls \in SeqsUpTo(DiffPool, MaxTotalLines) }

\* Either a document and an index are drawn and the texts are empty, or two texts
\* are drawn and the document is empty.
TotalInit ==
    /\ InitCache
    /\ LoadIdle
    /\ pathResult = <<>>
    /\ pathDone = FALSE
    /\ diffResult = <<>>
    /\ diffPrev = <<>>
    /\ diffCalls = 0
    /\ \/ /\ lines \in TotalDocuments
          /\ lineNum \in TotalIndices
          /\ oldContent = <<>>
          /\ newContent = <<>>
       \/ /\ lines = <<>>
          /\ lineNum = 0
          /\ oldContent \in TotalTexts
          /\ newContent \in TotalTexts

TotalNext == PathCall \/ DiffCall

TotalSpec == TotalInit /\ [][TotalNext]_vars

(***************************************************************************)
(* LoadSpec: the loaders of the values over the Cache and the helm client. *)
(* Each loader runs on its own goroutine (a tea.Cmd, or Update for         *)
(* handleEnter); a call of Cache.Get or Cache.Set is one step here, since  *)
(* each runs under c.mu from beginning to end.                             *)
(***************************************************************************)

\* Bound: the calls of the helm client recorded in one behaviour.
MaxFetches == 2

\* The loads the program can start: loadValues(chart), loadValuesByVersion(chart,
\* version), and the diff branch of handleEnter with two different versions of the
\* selected chart, version1 first.
LoadCalls ==
    { [op |-> "loadValues", chartName |-> "a", versions |-> <<"">>],
      [op |-> "loadValuesByVersion", chartName |-> "a", versions |-> <<"1">>],
      [op |-> "handleEnter", chartName |-> "a", versions |-> <<"1", "2">>] }

\* The version loader p is working on.
LoadVersion(p) == args[p].versions[args[p].i]

\* The key of the Cache calls loader p is making.
LoadKey(p) == buildKey(args[p].chartName, LoadVersion(p))

\* Where loader p goes once it has the values of its version: to the Get of the
\* next version (handleEnter, after version1) or to its end.
AfterValues(p) == IF args[p].i < Len(args[p].versions) THEN "LoadGet" ELSE "LoadReturn"

NextVersion(p) ==
    IF args[p].i < Len(args[p].versions)
    THEN [args EXCEPT ![p].i = @ + 1]
    ELSE args

\* A loader starts (as long as the record of fetches has room). Update runs one
\* handleEnter at a time.
StartLoad(p, c) ==
    /\ pc[p] = "idle"
    /\ Cardinality(fetchLog) < MaxFetches
    /\ c.op = "handleEnter" =>
          \A q \in Procs : pc[q] = "idle" \/ args[q].op # "handleEnter"
    /\ pc' = [pc EXCEPT ![p] = "LoadGet"]
    /\ args' = [args EXCEPT ![p] =
                  [op |-> c.op, chartName |-> c.chartName, versions |-> c.versions, i |-> 1]]
    /\ ret' = [ret EXCEPT ![p] = [found |-> FALSE, values |-> "", err |-> FALSE]]
    /\ UNCHANGED <<entries, mu, now, lastSet, dropped, fetchLog, diffVars, pathVars>>

\* cached, found := cache.Get(chartName, version): on a hit the loader has its values.
LoadGet(p) ==
    /\ pc[p] = "LoadGet"
    /\ LET r == GetValue(LoadKey(p))
       IN  /\ ret' = [ret EXCEPT ![p] = [found |-> r.found, values |-> r.values, err |-> FALSE]]
           /\ pc' = [pc EXCEPT ![p] = IF r.found THEN AfterValues(p) ELSE "LoadFetch"]
           /\ args' = IF r.found THEN NextVersion(p) ELSE args
    /\ UNCHANGED <<entries, mu, now, lastSet, dropped, fetchLog, diffVars, pathVars>>

\* A plausible slip: the test of err left out, so the loader goes on to Set.
AfterFetchIgnoringError(err) == "LoadSet"

\* What the loader does with the outcome of the fetch: on an error it returns.
AfterFetch(err) == IF err THEN "LoadReturn" ELSE "LoadSet"

\* values, err := client.GetChartValuesByVersion(chartName, version) (GetChartValues
\* for loadValues): the helm client returns a text, or "" and an error.
LoadFetch(p) ==
    /\ pc[p] = "LoadFetch"
    /\ Cardinality(fetchLog) < MaxFetches
    /\ \E err \in BOOLEAN, t \in Values :
          LET values == IF err THEN "" ELSE t
          IN  /\ fetchLog' = fetchLog \cup
                                {[op |-> args[p].op,
                                  chartName |-> args[p].chartName,
                                  version |-> LoadVersion(p),
                                  values |-> values, err |-> err, at |-> now]}
              /\ ret' = [ret EXCEPT ![p] = [found |-> FALSE, values |-> values, err |-> err]]
              /\ pc' = [pc EXCEPT ![p] = AfterFetch(err)]
    /\ UNCHANGED <<entries, mu, now, args, lastSet, dropped, diffVars, pathVars>>

\* cache.Set(chartName, version, values)
LoadSet(p) ==
    /\ pc[p] = "LoadSet"
    /\ entries' = Store(LoadKey(p), ret[p].values)
    /\ lastSet' = MapPut(lastSet, LoadKey(p), [values |-> ret[p].values, at |-> now])
    /\ dropped' = dropped \ {LoadKey(p)}
    /\ pc' = [pc EXCEPT ![p] = AfterValues(p)]
    /\ args' = NextVersion(p)
    /\ UNCHANGED <<mu, now, ret, fetchLog, diffVars, pathVars>>

\* The loader ends: valuesLoadedMsg{values, err} is delivered, or handleEnter
\* returns (with m.err set after a failed fetch).
LoadReturn(p) ==
    /\ pc[p] = "LoadReturn"
    /\ pc' = [pc EXCEPT ![p] = "idle"]
    /\ args' = [args EXCEPT ![p] = NoArgs]
    /\ ret' = [ret EXCEPT ![p] = NoRet]
    /\ UNCHANGED <<entries, mu, now, lastSet, dropped, fetchLog, diffVars, pathVars>>

LoadNext ==
    \/ \E p \in Procs : \E c \in LoadCalls : StartLoad(p, c)
    \/ \E p \in Procs : LoadGet(p)
    \/ \E p \in Procs : LoadFetch(p)
    \/ \E p \in Procs : LoadSet(p)
    \/ \E p \in Procs : LoadReturn(p)
    \/ Tick /\ UNCHANGED <<diffVars, pathVars, loadVars>>

LoadSpec == Init /\ [][LoadNext]_vars

(***************************************************************************)
(* Properties of the cache (checked under Spec)                            *)
(***************************************************************************)

\* The key of the call caller p is making.
KeyOf(p) == buildKey(args[p].chartName, args[p].version)

\* Caller p is between acquiring and releasing c.mu (a pending writer has not
\* acquired it yet).
InCritical(p) ==
    pc[p] \in {"GetBody", "GetRUnlock", "SetBody", "SetUnlock", "ClearBody", "ClearUnlock"}

\* Caller p is inside the critical section of a Set or a Clear.
InWrite(p) == pc[p] \in {"SetBody", "SetUnlock", "ClearBody", "ClearUnlock"}

\* Caller p is inside the critical section of a Get.
InRead(p) == pc[p] \in {"GetBody", "GetRUnlock"}

\* C1: when Get(n, v) reads the store and the latest Set on its key since the latest
\* Clear was a Set of t (Set(n, v, t), or a Set of a pair with the same key), made at
\* the clock reading Get sees (no clock advance in between), Get returns (t, true).
C1_SetThenGet ==
    [][\A p \in Procs :
         ( /\ GetBody(p)
           /\ KeyOf(p) \in DOMAIN lastSet
           /\ lastSet[KeyOf(p)].at = now )
         => ( /\ ret'[p].found
              /\ ret'[p].values = lastSet[KeyOf(p)].values )]_vars

\* C1 witness: a Get has just returned (t, true) for a pair (n, v), the only pair
\* with its key, whose latest Set was Set(n, v, t) at the present clock reading: the
\* Get read the store after that Set, so at the same reading.
C1_Witness ==
    \E p \in Procs :
        /\ pc[p] = "GetRUnlock"
        /\ KeyOf(p) \in DOMAIN lastSet
        /\ \A nv \in Pairs :
              buildKey(nv[1], nv[2]) = KeyOf(p) => nv = <<args[p].chartName, args[p].version>>
        /\ lastSet[KeyOf(p)].at = now
        /\ ret[p].found
        /\ ret[p].values = "t2"
        /\ ret[p].values = lastSet[KeyOf(p)].values

\* C2: Get reports found exactly when an entry exists under buildKey(n, v) whose age
\* (now - timestamp) is at most the TTL, and then returns that entry's text; Set
\* stamps the entry with the clock; and a Get made when the clock is beyond the TTL
\* after the latest Set of its key (or with no Set of it since the latest Clear)
\* reports not found.
C2_FoundIffFresh ==
    [][\A p \in Procs :
         /\ GetBody(p) =>
              /\ ret'[p].found <=>
                    ( /\ KeyOf(p) \in DOMAIN entries
                      /\ now - entries[KeyOf(p)].timestamp <= TTL )
              /\ ret'[p].found => ret'[p].values = entries[KeyOf(p)].values
              /\ ( /\ KeyOf(p) \in DOMAIN lastSet
                   /\ now - lastSet[KeyOf(p)].at > TTL ) => ~ret'[p].found
              /\ KeyOf(p) \notin DOMAIN lastSet => ~ret'[p].found
         /\ SetBody(p) => entries'[KeyOf(p)].timestamp = now]_vars

\* C2 witness: a Get has just hit an entry whose age is exactly the TTL. (Another
\* key was Set at the present clock reading; the Get holds the lock, so it took it
\* after that Set and read the store at the present reading.)
C2_Witness ==
    \E p \in Procs :
        /\ pc[p] = "GetRUnlock"
        /\ ret[p].found
        /\ KeyOf(p) \in DOMAIN entries
        /\ now - entries[KeyOf(p)].timestamp = TTL
        /\ \E k \in DOMAIN entries : entries[k].timestamp = now

\* C2 second witness: a Get has just missed an entry that is resident but older
\* than the TTL.
C2_WitnessExpired ==
    \E p \in Procs :
        /\ pc[p] = "GetRUnlock"
        /\ ~ret[p].found
        /\ KeyOf(p) \in DOMAIN entries
        /\ now - entries[KeyOf(p)].timestamp > TTL
        /\ \E k \in DOMAIN entries : entries[k].timestamp = now

\* C3: while a Set or a Clear is inside its critical section, no other Get, Set or
\* Clear is inside its critical section.
C3_WriterExcludesAll ==
    \A p, q \in Procs : (p # q /\ InWrite(p)) => ~InCritical(q)

\* C3 witness: two Gets are inside their critical sections at the same time, while
\* an entry is resident (a Set has been through its critical section).
C3_Witness ==
    /\ \E p, q \in Procs : p # q /\ InRead(p) /\ InRead(q)
    /\ DOMAIN entries # {}

\* A Set waits for the lock while a Get holds it.
C3_WriterWaits ==
    \E p, q \in Procs : p # q /\ InRead(p) /\ pc[q] = "SetLock"

\* C11: a Get that reads the store when its key was dropped by the latest Clear and
\* not Set since, or was never Set since the latest Clear, reports not found; and
\* whatever a Get returns is the text of the latest Set of its key made since the
\* latest Clear, never an entry stored before it.
C11_ClearForgets ==
    [][\A p \in Procs :
         GetBody(p) =>
            /\ KeyOf(p) \in dropped => ~ret'[p].found
            /\ KeyOf(p) \notin DOMAIN lastSet => ~ret'[p].found
            /\ ret'[p].found => /\ KeyOf(p) \in DOMAIN lastSet
                                /\ KeyOf(p) \notin dropped
                                /\ ret'[p].values = lastSet[KeyOf(p)].values]_vars

\* C11 witness: a Get has just missed a key that the latest Clear dropped, at the
\* clock reading 0 (the dropped entry was as fresh as an entry can be), while
\* another key, Set after that Clear, is resident.
C11_Witness ==
    \E p \in Procs :
        /\ pc[p] = "GetRUnlock"
        /\ ~ret[p].found
        /\ now = 0
        /\ KeyOf(p) \in dropped
        /\ DOMAIN entries # {}

\* The key the documentation gives for (n, v): n alone, or n, '@' and v.
DocumentedKey(n, v) == IF v = "" THEN n ELSE n \o "@" \o v

\* C12: buildKey(n, "") is n and buildKey(n, v) with v non-empty is n + "@" + v; the
\* entry a Set has just stored stands under that key, and two calls with the same
\* (n, v) work on the same key.
C12_KeyFormat ==
    /\ \A nv \in Pairs :
          /\ nv[2] = "" => buildKey(nv[1], nv[2]) = nv[1]
          /\ nv[2] # "" => buildKey(nv[1], nv[2]) = nv[1] \o "@" \o nv[2]
    /\ \A p \in Procs :
          pc[p] = "SetUnlock" =>
              LET key == DocumentedKey(args[p].chartName, args[p].version)
              IN  /\ key \in DOMAIN entries
                  /\ entries[key].values = args[p].values
    /\ \A p, q \in Procs :
          ( /\ args[p].op \in {"Get", "Set"}
            /\ args[q].op \in {"Get", "Set"}
            /\ args[p].chartName = args[q].chartName
            /\ args[p].version = args[q].version ) => KeyOf(p) = KeyOf(q)

\* C12 witness: a Set with a version has just stored its entry while the entry of
\* the same chart without a version is resident under another key.
C12_Witness ==
    \E p \in Procs :
        /\ pc[p] = "SetUnlock"
        /\ args[p].version # ""
        /\ args[p].chartName \in DOMAIN entries
        /\ (args[p].chartName \o "@" \o args[p].version) \in DOMAIN entries
        /\ entries[args[p].chartName].values # args[p].values

\* C13: under fair scheduling every call of Get, Set and Clear returns.
C13_EveryCallReturns ==
    \A p \in Procs : (pc[p] # "idle") ~> (pc[p] = "idle")

\* C13 witness: a Clear is the pending writer, waiting for a Get that holds the
\* lock, while entries are resident.
C13_Witness ==
    \E p, q \in Procs :
        /\ pc[p] = "ClearLockWait"
        /\ InRead(q)
        /\ DOMAIN entries # {}

(***************************************************************************)
(* Properties of DiffYAML (checked under DiffSpec)                         *)
(***************************************************************************)

OldLines == Split(oldContent)
NewLines == Split(newContent)

\* The keys carried by the lines of a document.
KeysOf(ls) == { extractKey(ls[i]) : i \in 1..Len(ls) } \ {<<>>}

\* The position (from 1) of the last line of ls that carries key k: the line a
\* document is indexed by for k.
LastWithKey(ls, k) ==
    CHOOSE i \in 1..Len(ls) :
        extractKey(ls[i]) = k /\ \A j \in (i + 1)..Len(ls) : extractKey(ls[j]) # k

\* The positions of the records of the given kind in the latest result.
RecordsOf(type) == { i \in 1..Len(diffResult) : diffResult[i].Type = type }

\* Some key is carried by two lines of ls whose text differs.
HasRepeatedKey(ls) ==
    \E i, j \in 1..Len(ls) :
        i # j /\ extractKey(ls[i]) # <<>> /\ extractKey(ls[i]) = extractKey(ls[j])
              /\ ls[i] # ls[j]

\* C4: DiffYAML(x, x) holds no Added and no Removed record: every record is Unchanged.
C4_SameTextNoChange ==
    (diffCalls >= 1 /\ oldContent = newContent) =>
        \A i \in 1..Len(diffResult) : diffResult[i].Type = "unchanged"

\* C4 witness: DiffYAML has returned for a text, given on both sides, in which one
\* key is carried by two lines.
C4_Witness ==
    /\ diffCalls >= 1
    /\ oldContent = newContent
    /\ HasRepeatedKey(NewLines)

\* C5: for every key indexed on both sides with different line text, the result
\* holds a Removed record with the old line and its old index directly followed by
\* an Added record with the new line and its new index.
C5_ModifiedIsRemovedThenAdded ==
    diffCalls >= 1 =>
        \A k \in KeysOf(OldLines) \cap KeysOf(NewLines) :
            LET o == LastWithKey(OldLines, k)
                n == LastWithKey(NewLines, k)
            IN  OldLines[o] # NewLines[n] =>
                    \E i \in 1..(Len(diffResult) - 1) :
                        /\ diffResult[i] = DiffLine("removed", OldLines[o], o - 1)
                        /\ diffResult[i + 1] = DiffLine("added", NewLines[n], n - 1)

\* C5 witness: DiffYAML has returned for texts that share a key whose indexed lines
\* differ, the old one not being the first line of the old text.
C5_Witness ==
    /\ diffCalls >= 1
    /\ \E k \in KeysOf(OldLines) \cap KeysOf(NewLines) :
          /\ OldLines[LastWithKey(OldLines, k)] # NewLines[LastWithKey(NewLines, k)]
          /\ LastWithKey(OldLines, k) > 1
          /\ LastWithKey(OldLines, k) # LastWithKey(NewLines, k)

\* The new text is the old text with one line put in, a line whose key the old
\* text does not carry.
OneKeyedLineAdded ==
    /\ Len(NewLines) = Len(OldLines) + 1
    /\ \E pos \in 1..Len(NewLines) :
          /\ extractKey(NewLines[pos]) # <<>>
          /\ extractKey(NewLines[pos]) \notin KeysOf(OldLines)
          /\ \A i \in 1..Len(OldLines) :
                OldLines[i] = NewLines[IF i < pos THEN i ELSE i + 1]

\* C6: for every key indexed on the new side and absent from the old side there is
\* an Added record with the new line and its new index and no Removed record for
\* that key; and when the new text is the old text plus one new keyed line, the
\* result holds exactly one Added record and no Removed record.
C6_AddedKey ==
    diffCalls >= 1 =>
        /\ \A k \in KeysOf(NewLines) \ KeysOf(OldLines) :
              LET n == LastWithKey(NewLines, k)
              IN  /\ \E i \in RecordsOf("added") :
                        diffResult[i] = DiffLine("added", NewLines[n], n - 1)
                  /\ \A i \in RecordsOf("removed") : extractKey(diffResult[i].Line) # k
        /\ OneKeyedLineAdded =>
              /\ Cardinality(RecordsOf("added")) = 1
              /\ Cardinality(RecordsOf("removed")) = 0

\* C7: two calls of DiffYAML with the same texts return the same sequence of records.
C7_Deterministic ==
    diffCalls >= 2 => diffResult = diffPrev

(***************************************************************************)
(* Properties of GetYAMLPath (checked under PathSpec)                      *)
(***************************************************************************)

\* lineNum is an index of lines.
InRange == lineNum >= 0 /\ lineNum < Len(lines)

\* A line that is neither blank nor a comment and carries a key.
Keyed(line) == ~IsBlankOrComment(line) /\ extractKey(line) # <<>>

\* A line whose trimmed content starts with '-'.
IsListItem(line) == HasPrefix(TrimSpace(line), "-")

\* The keys of a set of line indices, in top-to-bottom order.
RECURSIVE KeysInOrder(_, _)
KeysInOrder(ls, idxs) ==
    IF idxs = {} THEN <<>>
    ELSE LET j == CHOOSE x \in idxs : \A y \in idxs : x <= y
         IN  <<extractKey(At(ls, j))>> \o KeysInOrder(ls, idxs \ {j})

\* The ancestors of line t by the walk to the top of the document: the keyed lines
\* above t, each with an indent smaller than that of t and of every keyed line
\* between it and t.
AncestorsToTop(ls, t) ==
    { j \in 0..(t - 1) :
        /\ Keyed(At(ls, j))
        /\ getIndentLevel(At(ls, j)) < getIndentLevel(At(ls, t))
        /\ \A k \in (j + 1)..(t - 1) :
              Keyed(At(ls, k)) => getIndentLevel(At(ls, j)) < getIndentLevel(At(ls, k)) }

\* The same walk ended by the first line of indent 0 it meets that is neither blank
\* nor a comment: no line above that one is an ancestor.
AncestorsToRoot(ls, t) ==
    { j \in AncestorsToTop(ls, t) :
        \A z \in (j + 1)..(t - 1) :
            IsBlankOrComment(At(ls, z)) \/ getIndentLevel(At(ls, z)) # 0 }

\* GetYAMLPath(["app:", "  name: x", "  replicas: 3"], 2) = "app.replicas"
ExampleResolves ==
    GetYAMLPath(<< <<"a", "p", "p", ":">>,
                   <<" ", " ", "n", "a", "m", "e", ":", " ", "x">>,
                   <<" ", " ", "r", "e", "p", "l", "i", "c", "a", "s", ":", " ", "3">> >>, 2)
        = <<"a", "p", "p", ".", "r", "e", "p", "l", "i", "c", "a", "s">>

\* C8 as claimed: for a target with a key, the path is the keys of the ancestors
\* found by the walk to the top of the document, then the target's own key.
C8_PathByWalkToTop ==
    (pathDone /\ InRange /\ Keyed(At(lines, lineNum))) =>
        pathResult = Join(KeysInOrder(lines, AncestorsToTop(lines, lineNum))
                             \o <<extractKey(At(lines, lineNum))>>, ".")

\* C8 amended: for a target that is neither blank nor a comment and has a key, the
\* path is the keys, top to bottom, of the ancestors found by the backward walk
\* that ends at the first non-blank, non-comment line of indent 0, then the
\* target's own key; a keyed target at indent 0 resolves to its own key; the
\* example resolves to "app.replicas".
C8_PathByWalkToRoot ==
    /\ (pathDone /\ InRange /\ Keyed(At(lines, lineNum))) =>
          /\ pathResult = Join(KeysInOrder(lines, AncestorsToRoot(lines, lineNum))
                                  \o <<extractKey(At(lines, lineNum))>>, ".")
          /\ getIndentLevel(At(lines, lineNum)) = 0 =>
                pathResult = extractKey(At(lines, lineNum))
    /\ ExampleResolves

\* C8 witness: the call has returned for a keyed target with an ancestor, where a
\* keyless line of indent 0 stands between the target and a keyed line above it
\* that the walk to the top would have taken.
C8_Witness ==
    /\ pathDone /\ InRange /\ Keyed(At(lines, lineNum))
    /\ AncestorsToRoot(lines, lineNum) # {}
    /\ AncestorsToRoot(lines, lineNum) # AncestorsToTop(lines, lineNum)

\* The keyed lines above t whose indent is that of t minus 2.
ListParents(ls, t) ==
    { j \in 0..(t - 1) :
        Keyed(At(ls, j)) /\ getIndentLevel(At(ls, j)) = getIndentLevel(At(ls, t)) - 2 }

\* C9: a list-item target resolves to the path of the nearest keyed line above it
\* whose indent is the target's indent minus 2, and to "" when there is none.
C9_ListItemParent ==
    (pathDone /\ InRange /\ IsListItem(At(lines, lineNum))) =>
        LET parents == ListParents(lines, lineNum)
        IN  IF parents = {}
            THEN pathResult = <<>>
            ELSE pathResult =
                    GetYAMLPath(lines, CHOOSE j \in parents : \A k \in parents : k <= j)

\* C10: the path is "" when the index is out of range and when the target line is
\* blank or a comment, whatever the document holds.
C10_NoPathForNonContent ==
    pathDone =>
        /\ ~InRange => pathResult = <<>>
        /\ (InRange /\ IsBlankOrComment(At(lines, lineNum))) => pathResult = <<>>

\* C10 witness: the call has returned for a comment that holds a ':' and stands
\* below a keyed line.
C10_Witness ==
    /\ pathDone /\ InRange /\ lineNum > 0
    /\ HasPrefix(TrimSpace(At(lines, lineNum)), "#")
    /\ extractKey(At(lines, lineNum)) # <<>>
    /\ Keyed(At(lines, lineNum - 1))

(***************************************************************************)
(* Further properties of DiffYAML (checked under DiffSpec and WindowSpec)  *)
(***************************************************************************)

\* A line that is blank, a comment or a list item.
IsNonKeyLine(line) ==
    \/ TrimSpace(line) = <<>>
    \/ HasPrefix(TrimSpace(line), "#")
    \/ HasPrefix(TrimSpace(line), "-")

\* C14: no Added and no Removed record carries a line that is blank, a comment or a
\* list item: such a line occurs in the result as Unchanged context only.
C14_NonKeyLinesAreContext ==
    diffCalls >= 1 =>
        \A i \in 1..Len(diffResult) :
            IsNonKeyLine(diffResult[i].Line) => diffResult[i].Type = "unchanged"

\* The new-document line indices (from 0) classified Added or Modified: for each
\* key of the new text, the index of its last line, when the old text does not
\* carry the key or indexes another text under it.
Changes ==
    LET ol == OldLines
        nl == NewLines
        oldKeys == KeysOf(ol)
    IN  { LastWithKey(nl, k) - 1 : k \in
            { k \in KeysOf(nl) :
                \/ k \notin oldKeys
                \/ ol[LastWithKey(ol, k)] # nl[LastWithKey(nl, k)] } }

\* The new-document line indices that have a record of the main pass: the Added and
\* Unchanged records are made by the main pass only, one for each kept line.
MainPassLines ==
    { diffResult[i].LineNum : i \in RecordsOf("added") \cup RecordsOf("unchanged") }

Distance(i, c) == IF i >= c THEN i - c ELSE c - i

\* C16: new line i has a record of the main pass exactly when some index of Changes
\* is at most 2 away from i; with Changes empty the result holds nothing but the
\* trailing Removed records of the keys carried by the old text alone.
C16_WindowOfTwo ==
    diffCalls >= 1 =>
        LET changes == Changes
            kept == MainPassLines
            last == Len(NewLines) - 1
        IN  /\ \A i \in 0..last :
                  (i \in kept) <=> (\E c \in changes : Distance(i, c) <= 2)
            /\ kept \subseteq 0..last
            /\ changes = {} =>
                  /\ kept = {}
                  /\ Len(diffResult) = Cardinality(KeysOf(OldLines) \ KeysOf(NewLines))

\* C16 witness: DiffYAML has returned for a new text in which one line is 2 away
\* from the only change and kept, and another is 3 away and dropped.
C16_Witness ==
    /\ diffCalls >= 1
    /\ Cardinality(Changes) = 1
    /\ \E c \in Changes, i, j \in 0..(Len(NewLines) - 1) :
          /\ Distance(i, c) = 2 /\ i \in MainPassLines
          /\ Distance(j, c) = 3 /\ j \notin MainPassLines

\* C15: every Added record stands at a new-document index of Changes, and so does
\* the Added record a Removed record is paired with; a new line whose key is indexed
\* on both sides with the same text has no Added record.
C15_AddedOnlyAtChanges ==
    diffCalls >= 1 =>
        /\ \A i \in RecordsOf("added") : diffResult[i].LineNum \in Changes
        /\ \A i \in RecordsOf("added") :
              LET k == extractKey(diffResult[i].Line)
              IN  ~( /\ k \in KeysOf(OldLines) \cap KeysOf(NewLines)
                     /\ OldLines[LastWithKey(OldLines, k)] = NewLines[LastWithKey(NewLines, k)] )

\* The keys carried by the old text alone.
RemovedKeys == KeysOf(OldLines) \ KeysOf(NewLines)

\* The Removed record of key k of the old lines ol.
RemovedRecordOf(ol, k) ==
    DiffLine("removed", ol[LastWithKey(ol, k)], LastWithKey(ol, k) - 1)

\* C17: each key carried by the old text alone has exactly one Removed record, with
\* the old line and its old index; these records are the last records of the
\* result, after every record of the main pass.
C17_RemovedAtTheEnd ==
    diffCalls >= 1 =>
        LET ol == OldLines
            removed == RemovedKeys
            \* the positions of the trailing records, one for each removed key
            tail == (Len(diffResult) - Cardinality(removed) + 1)..Len(diffResult)
        IN  /\ Len(diffResult) >= Cardinality(removed)
            /\ \A k \in removed :
                  LET rec == RemovedRecordOf(ol, k)
                  IN  /\ Cardinality({ i \in 1..Len(diffResult) : diffResult[i] = rec }) = 1
                      /\ \E i \in tail : diffResult[i] = rec
            /\ \A i \in tail :
                  /\ diffResult[i].Type = "removed"
                  /\ extractKey(diffResult[i].Line) \in removed
            /\ \A i \in (1..Len(diffResult)) \ tail :
                  extractKey(diffResult[i].Line) \notin removed

\* C17 witness: DiffYAML has returned, with records of the main pass, for an old
\* text whose first line of two carries a key the new text does not carry.
C17_Witness ==
    /\ diffCalls >= 1
    /\ Len(OldLines) = 2
    /\ \E k \in RemovedKeys : LastWithKey(OldLines, k) = 1
    /\ MainPassLines # {}
    /\ RecordsOf("unchanged") # {}

\* The keyed lines of a document, as a set of texts.
KeyedLines(ls) == { ls[i] : i \in { j \in 1..Len(ls) : extractKey(ls[j]) # <<>> } }

\* C18: when some keyed line of one text has no identical line in the other, the
\* result holds an Added or a Removed record.
C18_DifferenceIsReported ==
    diffCalls >= 1 =>
        ( KeyedLines(OldLines) # KeyedLines(NewLines) =>
            RecordsOf("added") \cup RecordsOf("removed") # {} )

\* C19: the Added and Unchanged records stand in strictly increasing order of their
\* new-document index (so no new line has two of them), and the Added record of a
\* key the old text carries is directly preceded by the Removed record of that key.
C19_NewLineOrder ==
    diffCalls >= 1 =>
        LET ol == OldLines
            oldKeys == KeysOf(ol)
        IN  /\ \A i, j \in RecordsOf("added") \cup RecordsOf("unchanged") :
                  i < j => diffResult[i].LineNum < diffResult[j].LineNum
            /\ \A i \in RecordsOf("added") :
                  extractKey(diffResult[i].Line) \in oldKeys =>
                      /\ i > 1
                      /\ diffResult[i - 1] =
                            RemovedRecordOf(ol, extractKey(diffResult[i].Line))

\* C19 witness: DiffYAML has returned an Unchanged record, then a Removed record
\* directly followed by its Added record, then another record of a new line.
C19_Witness ==
    /\ diffCalls >= 1
    /\ \E i \in RecordsOf("added") :
          /\ i > 2
          /\ diffResult[i - 1].Type = "removed"
          /\ diffResult[i - 2].Type = "unchanged"
          /\ i < Len(diffResult)
          /\ diffResult[i + 1].Type \in {"added", "unchanged"}

\* The single entries the classification works on.
OldMap == BuildMap(OldLines, Len(OldLines))
NewMap == BuildMap(NewLines, Len(NewLines))

\* C20: each side indexes, for every key text its lines carry, the last line
\* carrying it and nothing else; the keys classified as changes and as removed are
\* those these entries give, whatever the other lines carrying the key say; and a
\* key indexed with different texts on the two sides, at whatever indents, has its
\* old entry as a Removed record directly followed by its new entry as an Added one.
C20_MatchedByKeyText ==
    diffCalls >= 1 =>
        LET ol == OldLines
            nl == NewLines
            oldKeys == KeysOf(ol)
            newKeys == KeysOf(nl)
            oldMap == BuildMap(ol, Len(ol))
            newMap == BuildMap(nl, Len(nl))
            changes == Changes
        IN  /\ DOMAIN oldMap = oldKeys
            /\ DOMAIN newMap = newKeys
            /\ \A k \in oldKeys :
                  oldMap[k] = [line |-> ol[LastWithKey(ol, k)],
                               lineNum |-> LastWithKey(ol, k) - 1]
            /\ \A k \in newKeys :
                  newMap[k] = [line |-> nl[LastWithKey(nl, k)],
                               lineNum |-> LastWithKey(nl, k) - 1]
            /\ IsChange(oldMap, newMap) = changes
            /\ RemovedKeySet(oldMap, newMap) = oldKeys \ newKeys
            /\ changes = {} => MainPassLines = {}
            /\ \A k \in oldKeys \cap newKeys :
                  oldMap[k].line # newMap[k].line =>
                      \E i \in 1..(Len(diffResult) - 1) :
                          /\ diffResult[i] = RemovedRecordOf(ol, k)
                          /\ diffResult[i + 1] =
                                DiffLine("added", newMap[k].line, newMap[k].lineNum)

\* C20 witness: DiffYAML has returned for texts that carry one key at two indents
\* on each side, the lines indexed for it differing in indent between the sides.
C20_Witness ==
    /\ diffCalls >= 1
    /\ HasRepeatedKey(OldLines)
    /\ HasRepeatedKey(NewLines)
    /\ \E k \in KeysOf(OldLines) \cap KeysOf(NewLines) :
          getIndentLevel(OldMap[k].line) # getIndentLevel(NewMap[k].line)

\* C21: every record is of kind added, removed or unchanged; a Removed record holds
\* an index of the old lines and the old line at that index; an Added or Unchanged
\* record holds an index of the new lines and the new line at that index.
C21_RecordsMatchSource ==
    diffCalls >= 1 =>
        LET ol == OldLines
            nl == NewLines
        IN  \A i \in 1..Len(diffResult) :
                LET r == diffResult[i]
                IN  /\ r.Type \in {"added", "removed", "unchanged"}
                    /\ r.Type = "removed" =>
                          /\ r.LineNum \in 0..(Len(ol) - 1)
                          /\ ol[r.LineNum + 1] = r.Line
                    /\ r.Type \in {"added", "unchanged"} =>
                          /\ r.LineNum \in 0..(Len(nl) - 1)
                          /\ nl[r.LineNum + 1] = r.Line

\* C21 witness: DiffYAML has returned records of the three kinds, among them a
\* trailing Removed record for the last of two old lines and an Added record that
\* is not at new index 0.
C21_Witness ==
    /\ diffCalls >= 1
    /\ RecordsOf("unchanged") # {}
    /\ \E i \in RecordsOf("added") : diffResult[i].LineNum > 0
    /\ Len(diffResult) > 0
    /\ diffResult[Len(diffResult)].Type = "removed"
    /\ diffResult[Len(diffResult)].LineNum = 1
    /\ extractKey(diffResult[Len(diffResult)].Line) \in RemovedKeys

(***************************************************************************)
(* Further properties of GetYAMLPath (checked under PathSpec)              *)
(***************************************************************************)

\* The target is neither blank nor a comment, has no key and is no list item.
KeylessTarget ==
    /\ InRange
    /\ ~IsBlankOrComment(At(lines, lineNum))
    /\ extractKey(At(lines, lineNum)) = <<>>
    /\ ~IsListItem(At(lines, lineNum))

\* The keyed lines above t whose indent is at most that of t.
AdoptableLines(ls, t) ==
    { j \in 0..(t - 1) :
        Keyed(At(ls, j)) /\ getIndentLevel(At(ls, j)) <= getIndentLevel(At(ls, t)) }

\* text ends with the segment seg: it is seg, or it ends with '.' and seg.
EndsWithSegment(text, seg) ==
    /\ Len(text) >= Len(seg)
    /\ SubSeq(text, Len(text) - Len(seg) + 1, Len(text)) = seg
    /\ Len(text) > Len(seg) => text[Len(text) - Len(seg)] = "."

\* C22: for a target without a key that is no list item, the path is the path of
\* the nearest keyed line above it whose indent is at most the target's (its key
\* is the last segment, its ancestors give the others), and "" when no such line
\* exists.
C22_KeylessTargetAdoptsKeyedLine ==
    (pathDone /\ KeylessTarget) =>
        LET cands == AdoptableLines(lines, lineNum)
        IN  IF cands = {}
            THEN pathResult = <<>>
            ELSE LET m == CHOOSE j \in cands : \A k \in cands : k <= j
                 IN  /\ EndsWithSegment(pathResult, extractKey(At(lines, m)))
                     /\ pathResult =
                           Join(KeysInOrder(lines, AncestorsToRoot(lines, m))
                                   \o <<extractKey(At(lines, m))>>, ".")

\* C22 witness: the call has returned for a keyless target whose adopted line has
\* the target's own indent, is not the line directly above it and has an ancestor.
C22_Witness ==
    /\ pathDone /\ KeylessTarget
    /\ AdoptableLines(lines, lineNum) # {}
    /\ LET cands == AdoptableLines(lines, lineNum)
           m == CHOOSE j \in cands : \A k \in cands : k <= j
       IN  /\ getIndentLevel(At(lines, m)) = getIndentLevel(At(lines, lineNum))
           /\ m < lineNum - 1
           /\ AncestorsToRoot(lines, m) # {}

\* C23: a non-empty path is the keys of its source lines joined by '.'; the source
\* lines have strictly increasing indices, none beyond the requested index, and
\* strictly increasing indents; and no line of indent 0 that is neither blank nor
\* a comment stands between a source line and the (possibly adjusted) target.
C23_SegmentsDescend ==
    (pathDone /\ pathResult # <<>>) =>
        LET srcs == PathSources(lines, lineNum)
            n == Len(srcs)
        IN  /\ n >= 1
            /\ pathResult = Join([i \in 1..n |-> extractKey(At(lines, srcs[i]))], ".")
            /\ \A i \in 1..n : srcs[i] >= 0 /\ srcs[i] <= lineNum
            /\ \A i \in 1..(n - 1) :
                  /\ srcs[i] < srcs[i + 1]
                  /\ getIndentLevel(At(lines, srcs[i])) < getIndentLevel(At(lines, srcs[i + 1]))
            /\ \A i \in 1..(n - 1) :
                  \A z \in (srcs[i] + 1)..(srcs[n] - 1) :
                      IsBlankOrComment(At(lines, z)) \/ getIndentLevel(At(lines, z)) # 0

\* C23 witness: the call has returned a path of two segments for a target that was
\* adjusted, the walk having passed over a keyed line between the two source lines.
C23_Witness ==
    /\ pathDone
    /\ Len(PathSources(lines, lineNum)) = 2
    /\ PathSources(lines, lineNum)[2] < lineNum
    /\ \E z \in 0..(lineNum - 1) :
          /\ Keyed(At(lines, z))
          /\ z > PathSources(lines, lineNum)[1]
          /\ z < PathSources(lines, lineNum)[2]

(***************************************************************************)
(* Totality of GetYAMLPath and DiffYAML (checked under TotalSpec)          *)
(***************************************************************************)

\* A string: a finite sequence of characters.
IsString(x) == DOMAIN x = 1..Len(x)

\* C24: for every line sequence, index and pair of texts, GetYAMLPath reads the
\* lines only at indices from 0 to len(lines) - 1 and yields a string, DiffYAML
\* yields a sequence of records whose line numbers lie inside the text they come
\* from, and no call changes its lines, its index or its texts.
C24_TotalAndPure ==
    /\ [](PathReads(lines, lineNum) \subseteq 0..(Len(lines) - 1))
    /\ [](IsString(GetYAMLPath(lines, lineNum)))
    /\ [](pathDone => pathResult = GetYAMLPath(lines, lineNum))
    /\ [](LET ol == Len(OldLines)
              nl == Len(NewLines)
          IN  /\ DiffYAML(oldContent, newContent) # {}
              /\ \A r \in DiffYAML(oldContent, newContent) \cup {diffResult} :
                     \A i \in 1..Len(r) :
                         /\ r[i].Type \in {"added", "removed", "unchanged"}
                         /\ IsString(r[i].Line)
                         /\ r[i].LineNum >= 0
                         /\ r[i].LineNum < (IF r[i].Type = "removed" THEN ol ELSE nl))
    /\ [][/\ lines' = lines
          /\ lineNum' = lineNum
          /\ oldContent' = oldContent
          /\ newContent' = newContent]_vars

\* C24 witness: GetYAMLPath has returned for an index beyond a document of two
\* lines, and DiffYAML has returned twice for the empty texts.
C24_Witness ==
    /\ pathDone
    /\ Len(lines) = 2
    /\ lineNum > Len(lines)
    /\ diffCalls = 2
    /\ oldContent = <<>>
    /\ newContent = <<>>

\* C24 second witness: both functions have returned for the empty line sequence
\* and two texts of two lines.
C24_WitnessTexts ==
    /\ pathDone
    /\ lines = <<>>
    /\ diffCalls = 2
    /\ Len(OldLines) = 2
    /\ Len(NewLines) = 2
    /\ diffResult # <<>>

(***************************************************************************)
(* Further properties of the cache (checked under Spec)                    *)
(***************************************************************************)

\* Caller p takes a step of a Get: the call, RLock, the lookup or RUnlock.
GetStep(p) ==
    \/ \E nv \in Pairs : CallGet(p, nv[1], nv[2])
    \/ GetRLock(p)
    \/ GetBody(p)
    \/ GetRUnlock(p)

\* C25: no step of a Get, hit or miss, changes the entry map; an entry, expired or
\* not, is removed or replaced only by the body of a Set on its key or by the body
\* of a Clear, so the passing of time removes nothing either.
C25_GetLeavesStore ==
    [][/\ \A p \in Procs : GetStep(p) => entries' = entries
       /\ \A k \in DOMAIN entries :
             (k \notin DOMAIN entries' \/ entries'[k] # entries[k]) =>
                \E p \in Procs : \/ SetBody(p) /\ KeyOf(p) = k
                                 \/ ClearBody(p)]_vars

\* C25 witness: two Gets have both just missed the same resident entry, which is
\* older than the TTL, and the entry is still in the map.
C25_Witness ==
    \E p, q \in Procs :
        /\ p # q
        /\ pc[p] = "GetRUnlock" /\ pc[q] = "GetRUnlock"
        /\ KeyOf(p) = KeyOf(q)
        /\ ~ret[p].found /\ ~ret[q].found
        /\ KeyOf(p) \in DOMAIN entries
        /\ now - entries[KeyOf(p)].timestamp > TTL

\* What Get(n, v) would return from the entry map m at the present clock reading.
GetFrom(m, n, v) ==
    LET key == buildKey(n, v)
    IN  IF key \in DOMAIN m /\ now - m[key].timestamp <= TTL
        THEN [found |-> TRUE, values |-> m[key].values]
        ELSE [found |-> FALSE, values |-> ""]

\* C26: the body of a Set on one (name, version) pair leaves what Get returns for
\* every other pair as it was (which needs distinct pairs to have distinct keys).
C26_SetLeavesOtherPairs ==
    [][\A p \in Procs :
         SetBody(p) =>
            \A nv \in Pairs :
                nv # <<args[p].chartName, args[p].version>> =>
                    GetFrom(entries', nv[1], nv[2]) = GetFrom(entries, nv[1], nv[2])]_vars

\* C27: the body of a Set on a resident key, fresh or expired, leaves under that key
\* exactly the new text with the present clock reading, so that a Get of the key at
\* that reading is a hit on the new text; and the entry of a key is always the text
\* of the latest Set on it with the time of that Set.
C27_ReSetReplacesWhole ==
    [][/\ \A p \in Procs :
             (SetBody(p) /\ KeyOf(p) \in DOMAIN entries) =>
                /\ entries'[KeyOf(p)] = [values |-> args[p].values, timestamp |-> now]
                /\ GetFrom(entries', args[p].chartName, args[p].version)
                      = [found |-> TRUE, values |-> args[p].values]
       /\ \A k \in DOMAIN entries' :
             /\ k \in DOMAIN lastSet'
             /\ entries'[k] = [values |-> lastSet'[k].values, timestamp |-> lastSet'[k].at]]_vars

\* C27 witness: a Set of t2 is inside its critical section, about to replace an
\* entry of t1 that is older than the TTL.
C27_Witness ==
    \E p \in Procs :
        /\ pc[p] = "SetBody"
        /\ args[p].values = "t2"
        /\ KeyOf(p) \in DOMAIN entries
        /\ entries[KeyOf(p)].values = "t1"
        /\ now - entries[KeyOf(p)].timestamp > TTL

\* C28: as long as a Get that found a text has not released the read lock, the text
\* it holds is the text of the latest Set on its key, no Clear has dropped the key
\* since that Set, and no Set or Clear is inside its critical section: the Get read
\* the store as the writers that held the lock before it left it, and what it
\* returns was passed to a Set for that key.
C28_GetSeesLatestSet ==
    \A p \in Procs :
        (pc[p] = "GetRUnlock" /\ ret[p].found) =>
            /\ KeyOf(p) \in DOMAIN lastSet
            /\ KeyOf(p) \notin dropped
            /\ ret[p].values = lastSet[KeyOf(p)].values
            /\ ret[p].values \in Values
            /\ \A q \in Procs : ~InWrite(q)

\* C28 witness: a Get holds the read lock with the text t2 that the latest Set on
\* its key stored, while a Set of t1 on the same key waits for the lock.
C28_Witness ==
    \E p, q \in Procs :
        /\ pc[p] = "GetRUnlock"
        /\ ret[p].found
        /\ ret[p].values = "t2"
        /\ pc[q] = "SetLockWait"
        /\ KeyOf(q) = KeyOf(p)
        /\ args[q].values = "t1"

(***************************************************************************)
(* Properties of the loaders (checked under LoadSpec)                      *)
(***************************************************************************)

\* The recorded fetches of (n, v) that returned without error.
FetchedOk(n, v) == { f \in fetchLog : f.chartName = n /\ f.version = v /\ ~f.err }

\* C29: a loader reaches the fetch only from a Get of its pair that missed; a step
\* that records a fetch is the fetch of a loader whose Get missed, and when the
\* fetch fails that step leaves the store as it was and takes the loader to its
\* return with the error; the store changes only by the Set of a loader whose
\* fetch of that pair returned the text without error; so every resident text is
\* the text of a recorded successful fetch of a pair with the entry's key.
C29_FetchOnMissSetOnSuccess ==
    [][/\ \A p \in Procs :
             (pc'[p] = "LoadFetch" /\ pc[p] # "LoadFetch") =>
                 /\ pc[p] = "LoadGet"
                 /\ ~GetValue(LoadKey(p)).found
       /\ \A f \in fetchLog' \ fetchLog :
             \E p \in Procs :
                 /\ pc[p] = "LoadFetch"
                 /\ ~ret[p].found
                 /\ f.chartName = args[p].chartName
                 /\ f.version = LoadVersion(p)
                 /\ f.err => /\ entries' = entries
                             /\ pc'[p] = "LoadReturn"
                             /\ ret'[p].err
       /\ entries' # entries =>
             \E p \in Procs :
                 /\ pc[p] = "LoadSet"
                 /\ ~ret[p].err
                 /\ \E f \in FetchedOk(args[p].chartName, LoadVersion(p)) :
                        f.values = ret[p].values
                 /\ entries' = MapPut(entries, LoadKey(p),
                                      [values |-> ret[p].values, timestamp |-> now])
       /\ \A k \in DOMAIN entries' :
             \E f \in fetchLog' :
                 /\ ~f.err
                 /\ buildKey(f.chartName, f.version) = k
                 /\ f.values = entries'[k].values]_vars

\* C29 witness: handleEnter is about to return with the error of the fetch of its
\* second version; the text of its first version, fetched without error, is
\* resident and nothing is resident for the second.
C29_Witness ==
    \E p \in Procs :
        /\ pc[p] = "LoadReturn"
        /\ args[p].op = "handleEnter"
        /\ args[p].i = 2
        /\ ret[p].err
        /\ LoadKey(p) \notin DOMAIN entries
        /\ \E f \in fetchLog : f.err /\ f.version = LoadVersion(p)
        /\ buildKey(args[p].chartName, args[p].versions[1]) \in DOMAIN entries
        /\ FetchedOk(args[p].chartName, args[p].versions[1]) # {}

\* C30: no loadValuesByVersion command fetches its (chart, version) while a fetch
\* of that pair by a loadValuesByVersion command, returned without error at most
\* one TTL ago, is on record.
C30_OneFetchPerWindow ==
    [][\A p \in Procs :
         (LoadFetch(p) /\ args[p].op = "loadValuesByVersion") =>
            \A f \in FetchedOk(args[p].chartName, LoadVersion(p)) :
                f.op = "loadValuesByVersion" => now - f.at > TTL]_vars

====
